---- MODULE Spec2Model ----
(***************************************************************************)
(* fdup: find groups of duplicate files under a root directory.            *)
(*                                                                         *)
(* The pipeline of src/src/fdup.rs (group_duplicate_files) and its caller  *)
(* src/src/main.rs, as a state machine:                                    *)
(*   walk the tree -> keep regular files -> partition_by_key(size)         *)
(*   -> drop singletons -> per size group partition_by_key(sha512)         *)
(*   -> drop singletons -> optional sort -> print.                         *)
(* partition_by_key is rayon's fold/reduce: items are folded into private  *)
(* accumulators (HashMap<Key, Vec<T>>), every finished accumulator is      *)
(* handed to the reducer, and the reducer merges partial mappings pairwise *)
(* with union_multimap, in whatever sharding and order the runtime picks.  *)
(* Every unwrap() of an I/O result is a panic that fails the run.          *)
(***************************************************************************)
EXTENDS Naturals, Sequences, FiniteSets, TLC

\* ------------------------------------------------------------------ bounds
\* longest file get_sha512_hash is followed through, in bytes
MaxFileLen == 4
\* number of calls of get_sha512_hash on one file
NumCalls == 2
\* let mut buffer = [0u8; 4096]
BufferSize == 4096
\* number of entries the traversal yields
NumPaths == 4
\* number of rayon worker threads: the accumulators being folded at one time
\* (a pool of fewer threads runs a subset of these schedules)
NumWorkers == 2
Paths == 1..NumPaths

\* the contents a regular file may have: empty, or one byte
Contents == {<<>>, <<0>>, <<1>>}

\* what walkdir reports for one path: its file type and, for a regular file,
\* the bytes it holds
Entries ==
    [kind : {"file"}, content : Contents]
        \cup [kind : {"dir", "symlink"}, content : {<<>>}]

\* Paths are interchangeable names, so a tree is taken up to renaming: the
\* entries are listed by kind, then by content.
KindRank(k) == CASE k = "dir" -> 0 [] k = "symlink" -> 1 [] k = "file" -> 2

ContentRank(c) == IF c = <<>> THEN 0 ELSE c[1] + 1

Listed(tree) ==
    \A p \in Paths, q \in Paths :
        p < q =>
            \/ KindRank(tree[p].kind) < KindRank(tree[q].kind)
            \/ /\ tree[p].kind = tree[q].kind
               /\ ContentRank(tree[p].content) <= ContentRank(tree[q].content)

Trees == {tree \in [Paths -> Entries] : Listed(tree)}

VARIABLES
    fs,         \* the directory tree under root: path -> entry
    sort,       \* Opt::sort
    pc,         \* "size": first partition running, "hash": second stage running
    sizePart,   \* the partition_by_key(get_file_size) in progress
    hashPart,   \* size key -> the partition_by_key(get_sha512_hash) of that group
    hashed,     \* paths that get_sha512_hash opened
    errored,    \* <<path, what failed>>: the I/O errors met, a panic each
    printed,    \* the lines written to stdout, one group each
    status,     \* "running", "ok" (main returned), "failed" (main panicked)
    prev,       \* whether a run over this tree came before, and the groups it printed
    rd          \* one get_sha512_hash call seen read by read: its file, the offset
                \* of the next read, the bytes given to the hasher, the sizes the
                \* reads returned, and the digests the calls on this file returned

\* the variables of the pipeline
pipe == <<fs, sort, pc, sizePart, hashPart, hashed, errored, printed, status, prev>>

vars == <<fs, sort, pc, sizePart, hashPart, hashed, errored, printed, status, prev, rd>>

\* ------------------------------------------------------------- pure parts

Range(f) == {f[x] : x \in DOMAIN f}

\* items of a sequence, as a set
Members(g) == {g[i] : i \in 1..Len(g)}

\* get_file_size: metadata().len()
get_file_size(p) == Len(fs[p].content)

\* Sha512 over the bytes fed to it.  The digest is a function of the byte
\* stream alone; it is kept small here, so that two streams may collide.
RECURSIVE Sha512(_)
Sha512(bytes) ==
    IF bytes = <<>> THEN 0
    ELSE (Sha512(SubSeq(bytes, 1, Len(bytes) - 1)) + bytes[Len(bytes)] + 1) % 2

\* get_sha512_hash that finalizes before the first read
get_sha512_hash_unread(p) == Sha512(<<>>)

\* get_sha512_hash: read the file to its end, feed every chunk, finalize
get_sha512_hash(p) == Sha512(fs[p].content)

\* id: the empty mapping
id == <<>>

\* fold_step that inserts a fresh list whether or not the key is there
fold_step_insert(acc, key, item) ==
    [k \in DOMAIN acc \cup {key} |-> IF k = key THEN <<item>> ELSE acc[k]]

\* the fold step of partition_by_key: push item on the list under key
fold_step(acc, key, item) ==
    IF key \in DOMAIN acc
    THEN [acc EXCEPT ![key] = Append(@, item)]
    ELSE acc @@ (key :> <<item>>)

\* drain_into that inserts the source list over the one target has
drain_into_insert(source, target) ==
    [k \in DOMAIN source \cup DOMAIN target |->
        IF k \in DOMAIN source THEN source[k] ELSE target[k]]

\* drain_into: every (key, values) of source is appended to target[key], or
\* inserted when target has no such key; the value is target afterwards
drain_into(source, target) ==
    [k \in DOMAIN source \cup DOMAIN target |->
        IF k \in DOMAIN target
        THEN IF k \in DOMAIN source THEN target[k] \o source[k] ELSE target[k]
        ELSE source[k]]

\* drain_into entry by entry: source.drain() takes one (key, values) out of
\* the source at a time, and the values go to the end of target[key] or are
\* inserted; the value is both mappings as the loop leaves them
RECURSIVE source_drain(_, _)
source_drain(source, target) ==
    IF DOMAIN source = {} THEN [source |-> source, target |-> target]
    ELSE LET key == CHOOSE k \in DOMAIN source : TRUE
             source_values == source[key]
         IN  source_drain([k \in DOMAIN source \ {key} |-> source[k]],
                          IF key \in DOMAIN target
                          THEN [target EXCEPT ![key] = @ \o source_values]
                          ELSE target @@ (key :> source_values))

\* union_multimap that returns the larger mapping without draining the other
union_multimap_nodrain(lhs, rhs) ==
    IF Cardinality(DOMAIN lhs) <= Cardinality(DOMAIN rhs)
    THEN drain_into(lhs, rhs)
    ELSE lhs

\* a choice that always drains the first operand into the second
drain_order_first(lhs, rhs) == [source |-> lhs, target |-> rhs]

\* the test of union_multimap: which mapping is drained (source) into which
\* (target), by HashMap::len, the number of keys
drain_order(lhs, rhs) ==
    IF Cardinality(DOMAIN lhs) <= Cardinality(DOMAIN rhs)
    THEN [source |-> lhs, target |-> rhs]
    ELSE [source |-> rhs, target |-> lhs]

\* the entries drain_into moves: one per key of the source
moved_entries(lhs, rhs) == Cardinality(DOMAIN drain_order(lhs, rhs).source)

\* union_multimap: drain the mapping with fewer keys into the other
union_multimap(lhs, rhs) ==
    drain_into(drain_order(lhs, rhs).source, drain_order(lhs, rhs).target)

\* a sort with the comparison turned around
SortPaths_descending(g) == SortSeq(g, LAMBDA a, b : a > b)

\* Vec<PathBuf>::sort
SortPaths(g) == SortSeq(g, LAMBDA a, b : a < b)

\* ------------------------------------------------- one partition_by_key run
\* items: what the run was given; pending: items not yet folded; open: accumulators a worker is folding
\* into; parts: partial mappings held by the reducer; dead: a key function
\* panicked inside this run; phase, out: once the run has returned ("emit"),
\* the groups it yielded that the consumer has not taken yet
NewPartition(items) ==
    [items |-> items, pending |-> items, open |-> {}, parts |-> {}, dead |-> FALSE,
     phase |-> "fold", out |-> {}]

\* a reduce that needs a partial mapping to end with, as reduce_with does
Reduced_some(part) ==
    /\ part.pending = {}
    /\ part.open = {}
    /\ Cardinality(part.parts) = 1

\* a reduce that does not wait for the items that are still to be folded
Reduced_eager(part) ==
    /\ part.open = {}
    /\ Cardinality(part.parts) <= 1

\* fold and reduce are over: nothing left to fold, nothing left to merge
Reduced(part) ==
    /\ part.pending = {}
    /\ part.open = {}
    /\ Cardinality(part.parts) <= 1

\* the value of `union`
UnionOf(part) == IF part.parts = {} THEN id ELSE CHOOSE m \in part.parts : TRUE

\* union.into_par_iter().map(|(_, v)| v)
GroupsOf(m) == Range(m)

OpenCount ==
    Cardinality(sizePart.open)
        + Cardinality(UNION {{<<s, m>> : m \in hashPart[s].open} : s \in DOMAIN hashPart})

FoldNew(part, key, item) ==
    [part EXCEPT !.pending = @ \ {item},
                 !.open = @ \cup {fold_step(id, key, item)}]

FoldInto(part, acc, key, item) ==
    [part EXCEPT !.pending = @ \ {item},
                 !.open = (@ \ {acc}) \cup {fold_step(acc, key, item)}]

\* the fold of one shard is over: the reducer takes the accumulator,
\* op(identity(), acc)
Close(part, acc) ==
    [part EXCEPT !.open = @ \ {acc},
                 !.parts = @ \cup {union_multimap(id, acc)}]

\* a reduce that keeps the drained mapping next to the union
Merge_copy(part, lhs, rhs) ==
    [part EXCEPT !.parts = (@ \ {drain_order(lhs, rhs).target}) \cup {union_multimap(lhs, rhs)}]

\* reduce: op(lhs, rhs) takes two partial mappings and gives back their union
Merge(part, lhs, rhs) ==
    [part EXCEPT !.parts = (@ \ {lhs, rhs}) \cup {union_multimap(lhs, rhs)}]

\* an Err that is dropped where unwrap() should panic
Panic_skip(part, item) ==
    [part EXCEPT !.pending = @ \ {item}]

\* unwrap() on an Err: the item is gone and the run unwinds, it never returns
Panic(part, item) ==
    [part EXCEPT !.pending = @ \ {item}, !.dead = TRUE]

\* some worker panicked; rayon hands the panic on to the caller of for_each
Panicked ==
    \/ sizePart.dead
    \/ \E s \in DOMAIN hashPart : hashPart[s].dead

\* a test of the file type that takes a symbolic link for the file it names
is_file_or_link(e) == fs[e].kind # "dir"

\* dir_entry.file_type().is_file(), of an entry walked with follow_links(false)
is_file(e) == fs[e].kind = "file"

\* no call of get_sha512_hash is looked into
NoRead == [file |-> <<>>, pos |-> 0, fed |-> <<>>, reads |-> <<>>, at |-> "idle",
           sums |-> {}, calls |-> 0]

\* ------------------------------------------------------------------- Init

Init ==
    /\ fs \in Trees
    /\ sort \in BOOLEAN
    /\ pc = "size"
    /\ sizePart = NewPartition(Paths)
    /\ hashPart = <<>>
    /\ hashed = {}
    /\ errored = {}
    /\ printed = <<>>
    /\ status = "running"
    /\ prev = [ran |-> FALSE, groups |-> {}]
    /\ rd = NoRead

\* ---------------------------------------------------- stage 1: size partition

\* WalkDir yields Err for this path: walkdir::Result::unwrap panics
WalkError(e) ==
    /\ status = "running" /\ pc = "size"
    /\ e \in sizePart.pending
    /\ sizePart' = Panic(sizePart, e)
    /\ errored' = errored \cup {<<e, "walk">>}
    /\ UNCHANGED <<fs, sort, pc, hashPart, hashed, printed, status, prev, rd>>

\* filter(|dir_entry| dir_entry.file_type().is_file()) drops the entry
SkipNonFile(e) ==
    /\ status = "running" /\ pc = "size"
    /\ e \in sizePart.pending
    /\ ~is_file(e)
    /\ sizePart' = [sizePart EXCEPT !.pending = @ \ {e}]
    /\ UNCHANGED <<fs, sort, pc, hashPart, hashed, errored, printed, status, prev, rd>>

\* entry.metadata().unwrap() panics
MetadataError(e) ==
    /\ status = "running" /\ pc = "size"
    /\ e \in sizePart.pending
    /\ is_file(e)
    /\ sizePart' = Panic(sizePart, e)
    /\ errored' = errored \cup {<<e, "metadata">>}
    /\ UNCHANGED <<fs, sort, pc, hashPart, hashed, printed, status, prev, rd>>

\* a worker starts a shard with this entry
SizeFoldNew(e) ==
    /\ status = "running" /\ pc = "size"
    /\ e \in sizePart.pending
    /\ is_file(e)
    /\ OpenCount < NumWorkers
    /\ sizePart' = FoldNew(sizePart, get_file_size(e), e)
    /\ UNCHANGED <<fs, sort, pc, hashPart, hashed, errored, printed, status, prev, rd>>

\* a worker folds this entry into the accumulator of its shard
SizeFoldInto(acc, e) ==
    /\ status = "running" /\ pc = "size"
    /\ e \in sizePart.pending
    /\ acc \in sizePart.open
    /\ is_file(e)
    /\ sizePart' = FoldInto(sizePart, acc, get_file_size(e), e)
    /\ UNCHANGED <<fs, sort, pc, hashPart, hashed, errored, printed, status, prev, rd>>

SizeClose(acc) ==
    /\ status = "running" /\ pc = "size"
    /\ acc \in sizePart.open
    /\ sizePart' = Close(sizePart, acc)
    /\ UNCHANGED <<fs, sort, pc, hashPart, hashed, errored, printed, status, prev, rd>>

SizeMerge(lhs, rhs) ==
    /\ status = "running" /\ pc = "size"
    /\ lhs \in sizePart.parts /\ rhs \in sizePart.parts /\ lhs # rhs
    /\ sizePart' = Merge(sizePart, lhs, rhs)
    /\ UNCHANGED <<fs, sort, pc, hashPart, hashed, errored, printed, status, prev, rd>>

\* a filter that lets the groups of one file through
SizeCollisions_all(m) == {k \in DOMAIN m : 0 < Len(m[k])}

\* a filter that also drops the groups of two files
SizeCollisions_three(m) == {k \in DOMAIN m : 2 < Len(m[k])}

\* the size groups with more than one file, by size key
SizeCollisions(m) == {k \in DOMAIN m : 1 < Len(m[k])}

\* partition_by_key(&get_file_size, files) returned: the groups with more
\* than one file go on, as paths, each to its own partition by checksum
SizePartitionDone ==
    /\ status = "running" /\ pc = "size"
    /\ Reduced(sizePart)
    /\ ~sizePart.dead
    /\ hashPart' = [k \in SizeCollisions(UnionOf(sizePart)) |->
                        NewPartition(Members(UnionOf(sizePart)[k]))]
    /\ sizePart' = [sizePart EXCEPT !.parts = {}, !.phase = "emit"]
    /\ pc' = "hash"
    /\ UNCHANGED <<fs, sort, hashed, errored, printed, status, prev, rd>>

\* ---------------------------------------------------- stage 2: hash partition

\* File::open or file.read fails: unwrap panics
ReadError(s, p) ==
    /\ status = "running" /\ pc = "hash"
    /\ s \in DOMAIN hashPart
    /\ hashPart[s].phase = "fold"
    /\ p \in hashPart[s].pending
    /\ hashPart' = [hashPart EXCEPT ![s] = Panic(@, p)]
    /\ hashed' = hashed \cup {p}
    /\ errored' = errored \cup {<<p, "read">>}
    /\ UNCHANGED <<fs, sort, pc, sizePart, printed, status, prev, rd>>

HashFoldNew(s, p) ==
    /\ status = "running" /\ pc = "hash"
    /\ s \in DOMAIN hashPart
    /\ hashPart[s].phase = "fold"
    /\ p \in hashPart[s].pending
    /\ OpenCount < NumWorkers
    /\ hashPart' = [hashPart EXCEPT ![s] = FoldNew(@, get_sha512_hash(p), p)]
    /\ hashed' = hashed \cup {p}
    /\ UNCHANGED <<fs, sort, pc, sizePart, errored, printed, status, prev, rd>>

HashFoldInto(s, acc, p) ==
    /\ status = "running" /\ pc = "hash"
    /\ s \in DOMAIN hashPart
    /\ hashPart[s].phase = "fold"
    /\ p \in hashPart[s].pending
    /\ acc \in hashPart[s].open
    /\ hashPart' = [hashPart EXCEPT ![s] = FoldInto(@, acc, get_sha512_hash(p), p)]
    /\ hashed' = hashed \cup {p}
    /\ UNCHANGED <<fs, sort, pc, sizePart, errored, printed, status, prev, rd>>

HashClose(s, acc) ==
    /\ status = "running" /\ pc = "hash"
    /\ s \in DOMAIN hashPart
    /\ acc \in hashPart[s].open
    /\ hashPart' = [hashPart EXCEPT ![s] = Close(@, acc)]
    /\ UNCHANGED <<fs, sort, pc, sizePart, hashed, errored, printed, status, prev, rd>>

HashMerge(s, lhs, rhs) ==
    /\ status = "running" /\ pc = "hash"
    /\ s \in DOMAIN hashPart
    /\ lhs \in hashPart[s].parts /\ rhs \in hashPart[s].parts /\ lhs # rhs
    /\ hashPart' = [hashPart EXCEPT ![s] = Merge(@, lhs, rhs)]
    /\ UNCHANGED <<fs, sort, pc, sizePart, hashed, errored, printed, status, prev, rd>>

\* partition_by_key(&get_sha512_hash, files_with_same_size) returned: its
\* groups with more than one file flow on to the consumer
HashPartitionDone(s) ==
    /\ status = "running" /\ pc = "hash"
    /\ s \in DOMAIN hashPart
    /\ hashPart[s].phase = "fold"
    /\ Reduced(hashPart[s])
    /\ ~hashPart[s].dead
    /\ hashPart' = [hashPart EXCEPT ![s].phase = "emit",
                                    ![s].parts = {},
                                    ![s].out = {g \in GroupsOf(UnionOf(hashPart[s])) : 1 < Len(g)}]
    /\ UNCHANGED <<fs, sort, pc, sizePart, hashed, errored, printed, status, prev, rd>>

\* the last map of group_duplicate_files and the for_each of main
Emit(s, g) ==
    /\ status = "running" /\ pc = "hash"
    /\ s \in DOMAIN hashPart
    /\ g \in hashPart[s].out
    /\ hashPart' = [hashPart EXCEPT ![s].out = @ \ {g}]
    /\ printed' = Append(printed, IF sort THEN SortPaths(g) ELSE g)
    /\ UNCHANGED <<fs, sort, pc, sizePart, hashed, errored, status, prev, rd>>

\* ------------------------------------------------------------ end of main

AllEmitted ==
    /\ pc = "hash"
    /\ \A s \in DOMAIN hashPart : hashPart[s].phase = "emit" /\ hashPart[s].out = {}

\* for_each returned: main returns
Exit ==
    /\ status = "running"
    /\ ~Panicked
    /\ AllEmitted
    /\ status' = "ok"
    /\ UNCHANGED <<fs, sort, pc, sizePart, hashPart, hashed, errored, printed, prev, rd>>

\* a panic reaches main: the process exits with a failure status
Abort ==
    /\ status = "running"
    /\ Panicked
    /\ status' = "failed"
    /\ UNCHANGED <<fs, sort, pc, sizePart, hashPart, hashed, errored, printed, prev, rd>>

Next ==
    \/ \E e \in Paths : WalkError(e)
    \/ \E e \in Paths : SkipNonFile(e)
    \/ \E e \in Paths : MetadataError(e)
    \/ \E e \in Paths : SizeFoldNew(e)
    \/ \E e \in Paths : \E acc \in sizePart.open : SizeFoldInto(acc, e)
    \/ \E acc \in sizePart.open : SizeClose(acc)
    \/ \E lhs \in sizePart.parts : \E rhs \in sizePart.parts : SizeMerge(lhs, rhs)
    \/ SizePartitionDone
    \/ \E s \in DOMAIN hashPart : \E p \in Paths : ReadError(s, p)
    \/ \E s \in DOMAIN hashPart : \E p \in Paths : HashFoldNew(s, p)
    \/ \E s \in DOMAIN hashPart : \E p \in Paths :
            \E acc \in hashPart[s].open : HashFoldInto(s, acc, p)
    \/ \E s \in DOMAIN hashPart : \E acc \in hashPart[s].open : HashClose(s, acc)
    \/ \E s \in DOMAIN hashPart :
            \E lhs \in hashPart[s].parts : \E rhs \in hashPart[s].parts : HashMerge(s, lhs, rhs)
    \/ \E s \in DOMAIN hashPart : HashPartitionDone(s)
    \/ \E s \in DOMAIN hashPart : \E g \in hashPart[s].out : Emit(s, g)
    \/ Exit
    \/ Abort

Spec == Init /\ [][Next]_vars

\* the pool keeps its workers running: while a step of the run can be taken,
\* one is taken
SpecLive == Init /\ [][Next]_vars /\ WF_vars(Next)

\* ------------------------------------------- get_sha512_hash, read by read

RECURSIVE FilesUpTo(_)
FilesUpTo(n) ==
    IF n = 0 THEN {<<>>}
    ELSE LET shorter == FilesUpTo(n - 1)
         IN  shorter \cup {Append(f, b) : f \in {g \in shorter : Len(g) = n - 1},
                                          b \in {0, 1}}

\* File::open(path), Sha512::new()
OpenFile(r, content) ==
    [r EXCEPT !.file = content, !.pos = 0, !.fed = <<>>, !.reads = <<>>, !.at = "reading"]

\* the bytes one file.read(&mut buffer) may return at this offset: up to the
\* length of the buffer, at least one while bytes are left, none at the end
ReadSizes(r) ==
    IF r.pos = Len(r.file) THEN {0}
    ELSE {n \in 1..BufferSize : r.pos + n <= Len(r.file)}

\* a loop that takes a read of less than the buffer for the last one
loop_step_short(r, size) ==
    [r EXCEPT !.reads = Append(@, size),
              !.pos = @ + size,
              !.fed = @ \o SubSeq(r.file, r.pos + 1, r.pos + size),
              !.at = "done",
              !.sums = @ \cup {Sha512(r.fed \o SubSeq(r.file, r.pos + 1, r.pos + size))},
              !.calls = @ + 1]

\* one turn of the loop: the read returned size bytes;
\* 0 => break hasher.finalize(), size => hasher.update(&buffer[..size])
loop_step(r, size) ==
    IF size = 0
    THEN [r EXCEPT !.reads = Append(@, size),
                   !.at = "done",
                   !.sums = @ \cup {Sha512(r.fed)},
                   !.calls = @ + 1]
    ELSE [r EXCEPT !.reads = Append(@, size),
                   !.pos = @ + size,
                   !.fed = @ \o SubSeq(r.file, r.pos + 1, r.pos + size)]

InitHash ==
    /\ fs = [p \in Paths |-> [kind |-> "dir", content |-> <<>>]]
    /\ sort = FALSE
    /\ pc = "size"
    /\ sizePart = NewPartition(Paths)
    /\ hashPart = <<>>
    /\ hashed = {}
    /\ errored = {}
    /\ printed = <<>>
    /\ status = "running"
    /\ prev = [ran |-> FALSE, groups |-> {}]
    /\ \E content \in FilesUpTo(MaxFileLen) : rd = OpenFile(NoRead, content)

\* file.read(&mut buffer).unwrap() returned
HashRead(size) ==
    /\ rd.at = "reading"
    /\ size \in ReadSizes(rd)
    /\ rd' = loop_step(rd, size)
    /\ UNCHANGED pipe

\* file.read(&mut buffer) is an Err: unwrap panics
HashReadFails ==
    /\ rd.at = "reading"
    /\ rd' = [rd EXCEPT !.at = "panicked"]
    /\ UNCHANGED pipe

\* get_sha512_hash is called once more on the file, which has not changed
HashAgain ==
    /\ rd.at = "done"
    /\ rd.calls < NumCalls
    /\ rd' = OpenFile(rd, rd.file)
    /\ UNCHANGED pipe

NextHash ==
    \/ \E size \in 0..MaxFileLen : HashRead(size)
    \/ HashReadFails
    \/ HashAgain

SpecHash == InitHash /\ [][NextHash]_vars

\* a second run of the program over the same, unchanged tree, with whatever
\* options: what the first run printed is kept, as a set of sets of paths
PrintedSets == {Members(printed[i]) : i \in 1..Len(printed)}

Rerun ==
    /\ status = "ok"
    /\ ~prev.ran
    /\ prev' = [ran |-> TRUE, groups |-> PrintedSets]
    /\ sort' \in BOOLEAN
    /\ pc' = "size"
    /\ sizePart' = NewPartition(Paths)
    /\ hashPart' = <<>>
    /\ hashed' = {}
    /\ errored' = {}
    /\ printed' = <<>>
    /\ status' = "running"
    /\ UNCHANGED <<fs, rd>>

NextRerun == Next \/ Rerun

SpecRerun == Init /\ [][NextRerun]_vars

\* ------------------------------------------------------------- properties

Files == {p \in Paths : fs[p].kind = "file"}

\* the length of the file at p, and the digest of the bytes it holds
SizeOf(p) == Len(fs[p].content)

ChecksumOf(p) == Sha512(fs[p].content)

\* two different regular files with the same size and the same checksum
Duplicates(p, q) ==
    /\ p # q
    /\ p \in Files /\ q \in Files
    /\ SizeOf(p) = SizeOf(q)
    /\ ChecksumOf(p) = ChecksumOf(q)

HasSibling(p) == \E q \in Paths : Duplicates(p, q)

\* the sets of files that are duplicates of one another
DuplicateSets ==
    {{p} \cup {q \in Paths : Duplicates(p, q)} : p \in {r \in Files : HasSibling(r)}}

\* how often x occurs in the list g
Count(x, g) == Cardinality({i \in 1..Len(g) : g[i] = x})

\* the positions <<line, index>> of path p in the output
Occurrences(p) ==
    {<<i, j>> \in (1..Len(printed)) \X (1..NumPaths) :
        j <= Len(printed[i]) /\ printed[i][j] = p}

\* C1 (coverage): no regular file without a sibling of equal size and equal
\* checksum is ever printed, no file is printed more than once, and when the
\* run has ended well every file that has such a sibling is in exactly one
\* printed group.
Coverage ==
    /\ \A p \in Files : ~HasSibling(p) => Occurrences(p) = {}
    /\ \A p \in Files : Cardinality(Occurrences(p)) <= 1
    /\ status = "ok" =>
            \A p \in Files : HasSibling(p) => Cardinality(Occurrences(p)) = 1

\* a finished run that printed a group and left a regular file out
CoverageWitness ==
    /\ status = "ok"
    /\ printed # <<>>
    /\ \E p \in Files : ~HasSibling(p)
    /\ \E p \in Files : HasSibling(p) /\ Cardinality(Occurrences(p)) = 1

\* C2 (group purity): the members of a printed group all have one size and
\* one checksum, and no path occurs twice in the output, be it in two groups
\* or twice in one.
GroupPurity ==
    /\ \A i \in 1..Len(printed) :
            \A a \in Members(printed[i]), b \in Members(printed[i]) :
                /\ SizeOf(a) = SizeOf(b)
                /\ ChecksumOf(a) = ChecksumOf(b)
    /\ \A p \in Paths : Cardinality(Occurrences(p)) <= 1

\* two groups are out, and a file of the size of one of them, with another
\* checksum, was kept out of it
GroupPurityWitness ==
    /\ Len(printed) = 2
    /\ \E p \in Files : \E q \in Members(printed[1]) :
            /\ SizeOf(p) = SizeOf(q)
            /\ ChecksumOf(p) # ChecksumOf(q)

\* the groups a finished partition_by_key run yields put a and b together
\* exactly when key(a) = key(b)
PartitionedBy(part, key(_), items) ==
    (part.phase = "fold" /\ Reduced(part) /\ ~part.dead) =>
        \A a \in items, b \in items :
            (\E g \in GroupsOf(UnionOf(part)) : a \in Members(g) /\ b \in Members(g))
                <=> key(a) = key(b)

\* C3: whatever the shards, the order inside a shard and the order of the
\* merges, partition_by_key puts two items in one output group if and only if
\* their keys are equal, in the partition by size and in each by checksum.
PartitionByKeyIff ==
    /\ PartitionedBy(sizePart, SizeOf, Files)
    /\ \A s \in DOMAIN hashPart :
            PartitionedBy(hashPart[s], ChecksumOf, hashPart[s].items)

\* a partition over three items and two keys that came together from more than
\* one shard has ended
PartitionByKeyIffWitness ==
    /\ pc = "size" /\ Reduced(sizePart) /\ ~sizePart.dead
    /\ Cardinality(Files) >= 3
    /\ Cardinality(DOMAIN UnionOf(sizePart)) = 2
    /\ \E k \in DOMAIN UnionOf(sizePart) :
            /\ Len(UnionOf(sizePart)[k]) >= 2
            /\ UnionOf(sizePart)[k][1] > UnionOf(sizePart)[k][2]

\* C4 (maximal groups): two files of equal size and equal checksum are never
\* printed in two different groups, and a run that ends well has printed as
\* many groups as there are sets of duplicates.
MaximalGroups ==
    /\ \A i \in 1..Len(printed), j \in 1..Len(printed) :
            i # j =>
                \A a \in Members(printed[i]), b \in Members(printed[j]) :
                    ~Duplicates(a, b)
    /\ status = "ok" => Len(printed) = Cardinality(DuplicateSets)

\* a run ended well with one group of three files
MaximalGroupsWitness ==
    /\ status = "ok"
    /\ Len(printed) = 1
    /\ Len(printed[1]) = 3
    /\ Cardinality(Files) = 4

\* the list under key k, empty when the mapping has no such key
ListAt(m, k) == IF k \in DOMAIN m THEN m[k] ELSE <<>>

\* U holds, key by key, every item of lhs and of rhs as often as they do
IsUnion(U, lhs, rhs) ==
    /\ DOMAIN U = DOMAIN lhs \cup DOMAIN rhs
    /\ \A k \in DOMAIN U : \A x \in Paths :
            Count(x, U[k]) = Count(x, ListAt(lhs, k)) + Count(x, ListAt(rhs, k))

\* the pairs of partial mappings the reducer may hand to union_multimap
MergePairs(part) == {<<lhs, rhs>> \in part.parts \X part.parts : lhs # rhs}

\* C5 (merge correctness): for any two partial mappings of one run (they hold
\* disjoint items), union_multimap yields the keys of both and under each key
\* the items of both lists, each exactly as often as in the inputs.
MergeCorrect ==
    \A part \in {sizePart} \cup Range(hashPart) :
        \A pair \in MergePairs(part) :
            IsUnion(union_multimap(pair[1], pair[2]), pair[1], pair[2])

\* two mappings wait to be merged: they share a key, and one has a key more
MergeCorrectWitness ==
    \E pair \in MergePairs(sizePart) :
        /\ DOMAIN pair[1] \cap DOMAIN pair[2] # {}
        /\ Cardinality(DOMAIN pair[1]) > Cardinality(DOMAIN pair[2])

\* a mapping up to the order inside its lists: key -> item -> occurrences
UpToOrder(m) == [k \in DOMAIN m |-> [x \in Members(m[k]) |-> Count(x, m[k])]]

\* what every fold and reduce over items must come to, up to order: under
\* each key the items of that key, once each
Expected(key(_), items) ==
    [k \in {key(x) : x \in items} |-> [x \in {y \in items : key(y) = k} |-> 1]]

\* a finished run holds the expected mapping
FoldedAs(part, key(_), items) ==
    (part.phase = "fold" /\ Reduced(part) /\ ~part.dead) =>
        UpToOrder(UnionOf(part)) = Expected(key, items)

\* C6: on the partial mappings of a run, union_multimap is commutative and
\* associative up to the order inside the lists, and id is its identity; so
\* every sharding and every order of merges ends in the same mapping from keys
\* to multisets of items.
MergeAlgebra ==
    /\ FoldedAs(sizePart, SizeOf, Files)
    /\ \A s \in DOMAIN hashPart : FoldedAs(hashPart[s], ChecksumOf, hashPart[s].items)
    /\ \A part \in {sizePart} \cup Range(hashPart) :
        \A a \in part.parts :
            /\ UpToOrder(union_multimap(id, a)) = UpToOrder(a)
            /\ UpToOrder(union_multimap(a, id)) = UpToOrder(a)
            /\ \A b \in part.parts \ {a} :
                /\ UpToOrder(union_multimap(a, b)) = UpToOrder(union_multimap(b, a))
                /\ \A c \in part.parts \ {a, b} :
                        UpToOrder(union_multimap(union_multimap(a, b), c))
                            = UpToOrder(union_multimap(a, union_multimap(b, c)))

\* three mappings wait to be merged, two of them with a key in common and one
\* of them with two keys
MergeAlgebraWitness ==
    /\ Cardinality(sizePart.parts) = 3
    /\ \E a \in sizePart.parts : \E b \in sizePart.parts \ {a} :
            /\ DOMAIN a \cap DOMAIN b # {}
            /\ Cardinality(DOMAIN a) = 2

\* the files of the size class of p that were printed
PrintedOfSize(p) ==
    {q \in Paths : Occurrences(q) # {} /\ SizeOf(q) = SizeOf(p)}

\* C7 as stated: once any error has occurred nothing is or was printed
NoPartialDelivery == errored # {} => printed = <<>>

\* C7, amended: no group is printed in a run in which a traversal or metadata
\* error occurs, and a read error keeps every group of the size class of the
\* unreadable file from being printed; groups of other size classes may be
\* printed before and after a read error.
NoDeliveryPastError ==
    /\ (\E e \in errored : e[2] \in {"walk", "metadata"}) => printed = <<>>
    /\ \A e \in errored : e[2] = "read" => PrintedOfSize(e[1]) = {}

\* a run failed on a read error in one size class, with a group of another
\* size class printed and none of its own
NoDeliveryPastErrorWitness ==
    /\ status = "failed"
    /\ printed # <<>>
    /\ \E e \in errored : e[2] = "read" /\ HasSibling(e[1])

\* C8: get_sha512_hash opens only regular files whose size some other regular
\* file has too.
HashOnlyCollisions ==
    \A p \in hashed :
        /\ p \in Files
        /\ \E q \in Files \ {p} : SizeOf(q) = SizeOf(p)

\* a run ended well that hashed some files and left a regular file unopened
HashOnlyCollisionsWitness ==
    /\ status = "ok"
    /\ hashed # {}
    /\ Files \ hashed # {}

\* the paths some worker has still to take up
PendingPaths == sizePart.pending \cup UNION {hashPart[s].pending : s \in DOMAIN hashPart}

\* C9: after an error the run never ends with status ok, it cannot stop
\* otherwise than failed, and the path of the error is neither taken up again
\* nor printed.
ErrorsFatal ==
    /\ errored # {} => status # "ok"
    /\ (errored # {} /\ ~ENABLED Next) => status = "failed"
    /\ \A e \in errored : e[1] \notin PendingPaths /\ Occurrences(e[1]) = {}

\* a run failed on a read error while other files were still to be hashed
ErrorsFatalWitness ==
    /\ status = "failed"
    /\ \E e \in errored : e[2] = "read"
    /\ PendingPaths # {}

\* C10 (re-run determinism): a second run over the unchanged tree that ends
\* well has printed the same set of groups, as sets of paths, as the first.
RerunSame == (prev.ran /\ status = "ok") => PrintedSets = prev.groups

\* both runs ended well with two groups, the second one sorting
RerunSameWitness ==
    /\ prev.ran
    /\ status = "ok"
    /\ Cardinality(prev.groups) = 2
    /\ sort

\* every regular file of the tree is empty, and there is one at least
AllEmpty == Files # {} /\ \A p \in Files : fs[p].content = <<>>

\* the run printed one group, and all regular files are in it
OneGroupOfAll == Len(printed) = 1 /\ Members(printed[1]) = Files

\* C11 as stated: whenever all files of the directory are empty, a run that
\* ends well has printed exactly one group holding all of them
AllEmptyOneGroup == (status = "ok" /\ AllEmpty) => OneGroupOfAll

\* C11, amended: when the directory holds two or more regular files and all
\* of them are empty, a run that ends well has printed exactly one group, and
\* the group holds all the files.
AllEmptyPairOneGroup ==
    (status = "ok" /\ AllEmpty /\ Cardinality(Files) >= 2) => OneGroupOfAll

\* a run over three empty files beside a directory ended well with its group
AllEmptyPairOneGroupWitness ==
    /\ status = "ok"
    /\ AllEmpty
    /\ Cardinality(Files) = 3
    /\ OneGroupOfAll
    /\ \E p \in Paths : fs[p].kind = "dir"

\* no two regular files hold the same bytes
NoDuplicateContent ==
    \A p \in Files, q \in Files : p # q => fs[p].content # fs[q].content

\* C12: over a tree with no regular file, or with no two regular files of
\* identical content, nothing is ever printed and a run that ends well has
\* printed no group; and a partition_by_key whose input is empty yields no group.
NoDuplicatesNoGroups ==
    /\ NoDuplicateContent => printed = <<>>
    /\ (pc = "size" /\ Reduced(sizePart) /\ ~sizePart.dead /\ Files = {}) =>
            GroupsOf(UnionOf(sizePart)) = {}

\* a run ended well with nothing printed although it had to hash two files of
\* one size to tell them apart
NoDuplicatesNoGroupsWitness ==
    /\ status = "ok"
    /\ NoDuplicateContent
    /\ Cardinality(hashed) >= 2
    /\ printed = <<>>

\* the list is in ascending order of paths
Ascending(g) == \A i \in 1..Len(g), j \in 1..Len(g) : i < j => g[i] < g[j]

\* one more line was printed: it is a group g the partition by checksum had
\* yielded, taken from its output, put in order when sort is set (same
\* members, same length) and left as it was when it is not
EmittedAsYielded ==
    Len(printed') = Len(printed) + 1 =>
        \E s \in DOMAIN hashPart : \E g \in hashPart[s].out :
            /\ hashPart'[s].out = hashPart[s].out \ {g}
            /\ SubSeq(printed', 1, Len(printed)) = printed
            /\ LET line == printed'[Len(printed')]
               IN  /\ Members(line) = Members(g)
                   /\ Len(line) = Len(g)
                   /\ sort => Ascending(line)
                   /\ ~sort => line = g

\* C13 (finalize): with sort set every printed group is in ascending order of
\* its paths; printing a group changes neither its members nor the groups
\* printed before; with sort not set the group is printed in the order the
\* partition yielded it.
Finalize ==
    /\ [](sort => \A i \in 1..Len(printed) : Ascending(printed[i]))
    /\ [][EmittedAsYielded]_vars

\* with sort set a run printed a group of three and ended well
FinalizeWitness ==
    /\ sort
    /\ status = "ok"
    /\ \E i \in 1..Len(printed) : Len(printed[i]) >= 3 /\ Ascending(printed[i])

\* all items held by a key -> list mapping
ItemsOf(m) == UNION {Members(m[k]) : k \in DOMAIN m}

\* the paths that are in some partial mapping, or in the output, of a run
HeldBy(part) ==
    UNION {ItemsOf(m) : m \in part.open \cup part.parts}
        \cup UNION {Members(g) : g \in part.out}

\* C14: a directory or a symbolic link is never in a partial mapping of the
\* size partition, is never handed to a partition by checksum, is never opened
\* by get_sha512_hash and is never printed.
RegularFilesOnly ==
    \A p \in Paths \ Files :
        /\ p \notin HeldBy(sizePart)
        /\ \A s \in DOMAIN hashPart : p \notin hashPart[s].items \cup HeldBy(hashPart[s])
        /\ p \notin hashed
        /\ Occurrences(p) = {}

\* a run over a directory, a symbolic link and two files ended well with the
\* two files printed
RegularFilesOnlyWitness ==
    /\ status = "ok"
    /\ \E p \in Paths : fs[p].kind = "dir"
    /\ \E p \in Paths : fs[p].kind = "symlink"
    /\ Len(printed) = 1
    /\ Members(printed[1]) = Files

NumKeys(m) == Cardinality(DOMAIN m)

Smaller(a, b) == IF a <= b THEN a ELSE b

\* C15 (drain the smaller): for any two partial mappings of a run, in either
\* operand order, union_multimap drains the one with fewer keys into the one
\* with more, and lhs into rhs when they have as many; it moves
\* min(|keys(lhs)|, |keys(rhs)|) entries, and under a key both have the list of
\* the result is the list of the mapping kept followed by the list of the
\* mapping drained.
DrainTheSmaller ==
    \A part \in {sizePart} \cup Range(hashPart) :
        \A pair \in MergePairs(part) :
            LET lhs == pair[1]
                rhs == pair[2]
                kept == IF NumKeys(lhs) <= NumKeys(rhs) THEN rhs ELSE lhs
                drained == IF NumKeys(lhs) <= NumKeys(rhs) THEN lhs ELSE rhs
            IN  /\ drain_order(lhs, rhs).source = drained
                /\ drain_order(lhs, rhs).target = kept
                /\ moved_entries(lhs, rhs) = Smaller(NumKeys(lhs), NumKeys(rhs))
                /\ \A k \in DOMAIN kept \cap DOMAIN drained :
                        union_multimap(lhs, rhs)[k] = kept[k] \o drained[k]

\* a mapping of two keys and three items waits to be merged with a mapping of
\* one key that it has too
DrainTheSmallerWitness ==
    \E pair \in MergePairs(sizePart) :
        /\ NumKeys(pair[1]) = 2
        /\ NumKeys(pair[2]) = 1
        /\ DOMAIN pair[2] \subseteq DOMAIN pair[1]
        /\ Cardinality(ItemsOf(pair[1])) = 3

Sum(s) == IF s = <<>> THEN 0 ELSE
    LET RECURSIVE Add(_)
        Add(i) == IF i = 0 THEN 0 ELSE s[i] + Add(i - 1)
    IN  Add(Len(s))

\* C16: however the reads split the file, the bytes given to the hasher are at
\* every moment the bytes of the file up to the offset read, in order; the loop
\* ends at the first read that returns 0 and at no other, with the whole file
\* given to the hasher; and every call on the unchanged file returns one and
\* the same digest, that of its content.
HashesWholeFile ==
    /\ rd.fed = SubSeq(rd.file, 1, rd.pos)
    /\ rd.pos = Sum(rd.reads)
    /\ \A i \in 1..Len(rd.reads) :
            rd.reads[i] = 0 <=> (rd.at = "done" /\ i = Len(rd.reads))
    /\ rd.at = "done" =>
            /\ rd.reads # <<>> /\ rd.reads[Len(rd.reads)] = 0
            /\ rd.fed = rd.file
            /\ rd.sums = {Sha512(rd.file)}
    /\ Cardinality(rd.sums) <= 1

\* the second call on a file of four bytes ended after reads of one, two and
\* one bytes
HashesWholeFileWitness ==
    /\ rd.at = "done"
    /\ rd.calls = 2
    /\ rd.reads = <<1, 2, 1, 0>>
    /\ rd.file = <<0, 1, 1, 0>>

\* C17 (termination): with the workers kept running, a run in which no error
\* occurs comes to print every set of duplicates and to end with status ok;
\* and a run that has ended stays ended.
Termination ==
    /\ <>(errored # {} \/ (status = "ok" /\ PrintedSets = DuplicateSets))
    /\ [][status = "ok" => status' = "ok" /\ printed' = printed]_vars

\* a run without an error went through two partitions by checksum and ended
\* with both their groups printed
TerminationWitness ==
    /\ status = "ok"
    /\ errored = {}
    /\ Cardinality(DOMAIN hashPart) = 2
    /\ PrintedSets = DuplicateSets
    /\ Cardinality(DuplicateSets) = 2

\* the partial mappings a run holds: accumulators and what the reducer has
Live(part) == part.open \cup part.parts

\* where item x is in the partial mappings of a run: <<mapping, key, index>>
Places(part, x) ==
    UNION {UNION {{<<m, k, i>> : i \in {j \in 1..Len(m[k]) : m[k][j] = x}} :
                      k \in DOMAIN m} : m \in Live(part)}

\* paths whose walk, metadata lookup or read has failed
Failed == {e[1] : e \in errored}

\* in a run that folds and reduces `inputs` by Key: an item not yet folded is
\* in no mapping, a folded one is once in one mapping under its own key, one
\* whose key lookup failed is nowhere; no list is empty; and what a merge
\* of two of the mappings would do is a move
Conserved(part, inputs, Key(_)) ==
    /\ part.pending \cap Failed = {}
    /\ \A x \in inputs :
          IF x \in part.pending \/ x \in Failed
          THEN Places(part, x) = {}
          ELSE /\ Cardinality(Places(part, x)) = 1
               /\ \A pl \in Places(part, x) : pl[2] = Key(x)
    /\ \A m \in Live(part) : \A k \in DOMAIN m : m[k] # <<>>
    /\ \A m \in Live(part) : ItemsOf(m) \subseteq inputs
    /\ \A pair \in MergePairs(part) :
          LET o == drain_order(pair[1], pair[2])
              d == source_drain(o.source, o.target)
              after == Merge(part, pair[1], pair[2])
          IN  /\ d.source = id
              /\ d.target \in after.parts
              /\ o.source \notin after.parts
              /\ \A x \in ItemsOf(o.source) \cup ItemsOf(o.target) :
                    Cardinality(Places(after, x)) = 1

\* C18 (item conservation): while a partition_by_key run folds and reduces,
\* each of its input items is in exactly one place: not yet folded, or once
\* in exactly one live partial mapping, in the list under its own key.  A
\* merge moves the items, leaves the drained mapping empty and out of the live
\* ones, and no key of a live mapping has an empty list.
ItemConservation ==
    /\ sizePart.phase = "fold" => Conserved(sizePart, Files, SizeOf)
    /\ \A s \in DOMAIN hashPart :
          hashPart[s].phase = "fold" => Conserved(hashPart[s], hashPart[s].items, ChecksumOf)

\* the size partition with a file not yet folded, an accumulator a worker is
\* folding into and two partial mappings the reducer is about to merge
ItemConservationWitness ==
    /\ pc = "size"
    /\ sizePart.pending \cap Files # {}
    /\ sizePart.open # {}
    /\ Cardinality(sizePart.parts) = 2

\* a traversal or metadata error has occurred
EarlyError == \E e \in errored : e[2] \in {"walk", "metadata"}

\* C19 (stage barrier): once a partition by checksum exists, a file has been
\* opened for hashing or a group has been printed, the size partition is
\* over: every entry was walked and folded, no accumulator and no partial
\* mapping is left, none of its lookups failed, and each partition by checksum
\* was given all the files of its size.  So after a traversal or metadata
\* error nothing is hashed, nothing is printed and the run does not end well.
StageBarrier ==
    /\ (pc = "hash" \/ DOMAIN hashPart # {} \/ hashed # {} \/ printed # <<>>) =>
          /\ sizePart.phase = "emit"
          /\ sizePart.pending = {} /\ sizePart.open = {} /\ sizePart.parts = {}
          /\ ~sizePart.dead
          /\ ~EarlyError
          /\ \A s \in DOMAIN hashPart :
                hashPart[s].items = {p \in Files : SizeOf(p) = s}
          /\ \A p \in Files :
                (\E q \in Files \ {p} : SizeOf(q) = SizeOf(p)) => SizeOf(p) \in DOMAIN hashPart
    /\ EarlyError =>
          /\ pc = "size" /\ hashPart = <<>> /\ hashed = {} /\ printed = <<>>
          /\ status # "ok"

\* two size classes went on to hashing, a file has been opened and nothing is
\* printed yet
StageBarrierWitness ==
    /\ pc = "hash"
    /\ Cardinality(DOMAIN hashPart) = 2
    /\ hashed # {}
    /\ printed = <<>>
    /\ status = "running"

====
